---- MODULE Spec2Model ----
(***************************************************************************)
(* Model of build-size.js: the pull-request build-size bot.  One           *)
(* invocation of main() handles one event; the files under                 *)
(* data/<owner>/<name>/ (master.json, comments.json, git/) carry state     *)
(* from one invocation to the next.                                        *)
(***************************************************************************)
EXTENDS Integers, Sequences, FiniteSets, TLC

(***************************************************************************)
(* Strings the code inspects character by character (paths) are sequences  *)
(* of one-character strings.                                               *)
(***************************************************************************)
Rep(c, n) == [i \in 1..n |-> c]

HexChars == {"a", "b", "c", "d", "e", "f", "A", "B", "C", "D", "E", "F",
             "0", "1", "2", "3", "4", "5", "6", "7", "8", "9"}

IsHex(c) == c \in HexChars

\* /[a-f0-9]{20,64}/i : the quantifier's limits
HashMin == 20
HashMax == 64

HashToken == <<"[", "h", "a", "s", "h", "]">>

\* number of consecutive hexadecimal characters of s starting at index i
HexRunLen(s, i) ==
  LET ends == {j \in i..(Len(s) + 1) : j = Len(s) + 1 \/ ~IsHex(s[j])}
      stop == CHOOSE j \in ends : \A k \in ends : j <= k
  IN stop - i

\* String.prototype.replace with a regex that has no g flag: the leftmost
\* match only, taken greedily up to HashMax characters.
ReplaceHash(s) ==
  LET starts == {i \in 1..Len(s) : HexRunLen(s, i) >= HashMin}
  IN IF starts = {} THEN s
     ELSE LET i == CHOOSE x \in starts : \A y \in starts : x <= y
              run == HexRunLen(s, i)
              n == IF run > HashMax THEN HashMax ELSE run
          IN SubSeq(s, 1, i - 1) \o HashToken \o SubSeq(s, i + n, Len(s))

\* path.join(gitPath, "dist" + path.sep), as the prefix klaw reports
distPath == <<"d", "i", "s", "t", "/">>

\* String.prototype.replace with a string pattern: the first occurrence only
StripDist(s) ==
  LET n == Len(distPath)
      at == {i \in 1..(Len(s) - n + 1) : SubSeq(s, i, i + n - 1) = distPath}
  IN IF at = {} THEN s
     ELSE LET i == CHOOSE x \in at : \A y \in at : x <= y
          IN SubSeq(s, 1, i - 1) \o SubSeq(s, i + n, Len(s))

normalizedPath(p) == ReplaceHash(StripDist(p))

\* path.extname: from the last "." of the last path portion, "" when there is
\* none or when the portion only starts with one
extname(p) ==
  LET slashes == {i \in 1..Len(p) : p[i] = "/"}
      from == IF slashes = {} THEN 1
              ELSE 1 + (CHOOSE x \in slashes : \A y \in slashes : y <= x)
      dots == {i \in from..Len(p) : p[i] = "."}
  IN IF dots = {} THEN <<>>
     ELSE LET d == CHOOSE x \in dots : \A y \in dots : y <= x
          IN IF d = from THEN <<>> ELSE SubSeq(p, d, Len(p))

(***************************************************************************)
(* Objects are functions from keys to values; a missing key reads as       *)
(* undefined.                                                              *)
(***************************************************************************)
EmptyObj == <<>>

Put(o, k, v) == [x \in (DOMAIN o) \cup {k} |-> IF x = k THEN v ELSE o[x]]

\* the klaw "data" handler for one regular file item = [path, size]
WalkData(files, item) ==
  LET ext == extname(item.path)
      f1 == IF ext \in DOMAIN files THEN files
            ELSE Put(files, ext, [files |-> EmptyObj, totalSize |-> 0])
      g == f1[ext]
  IN Put(f1, ext,
         [files |-> Put(g.files, normalizedPath(item.path), [size |-> item.size]),
          totalSize |-> g.totalSize + item.size])

\* the whole walk, items in the order klaw reports them
RECURSIVE WalkFrom(_, _)
WalkFrom(files, items) ==
  IF items = <<>> THEN files
  ELSE WalkFrom(WalkData(files, Head(items)), Tail(items))

Walk(items) == WalkFrom(EmptyObj, items)

\* every order in which klaw may report a set of items
Orders(S) ==
  {o \in [1..Cardinality(S) -> S] : \A i, j \in DOMAIN o : i # j => o[i] # o[j]}

(***************************************************************************)
(* JavaScript values that may be undefined are wrapped: <<>> is undefined, *)
(* <<v>> is the value v.  A statement that throws yields [threw |-> TRUE]. *)
(***************************************************************************)
undefined == <<>>
Val(v) == <<v>>
Truthy(m) == m # undefined
Get(o, k) == IF k \in DOMAIN o THEN Val(o[k]) ELSE undefined

\* mutant of JsonRoundTrip: properties holding undefined are written too
JsonKeepsUndefined(o) == o

\* JSON.stringify followed by JSON.parse of an object whose values may be
\* undefined: properties holding undefined are left out of the text
JsonRoundTrip(o) ==
  LET keep == {k \in DOMAIN o : o[k] # undefined}
  IN [k \in keep |-> o[k]]

\* lines 161-172 for one extension: does a property read of undefined occur
GroupThrows(extFiles, masterExtFiles) ==
  \/ masterExtFiles = undefined
  \/ \E filePath \in DOMAIN extFiles.files :
        Get(masterExtFiles[1].files, filePath) = undefined

\* lines 161-172 for one extension, when nothing throws
DiffGroup(extFiles, m) ==
  LET old(filePath) == m.files[filePath].size
      removed == (DOMAIN m.files) \ (DOMAIN extFiles.files)
  IN [files |->
        [filePath \in (DOMAIN extFiles.files) \cup removed |->
           IF filePath \in DOMAIN extFiles.files
           THEN [size |-> extFiles.files[filePath].size,
                 diff |-> extFiles.files[filePath].size - old(filePath)]
           ELSE [diff |-> 0 - m.files[filePath].size]],
      totalSize |-> extFiles.totalSize,
      diff |-> extFiles.totalSize - m.totalSize]

\* mutant of CollectDiff: the groups of the baseline are walked as well
CollectDiffAllGroups(files, master) ==
  IF \E ext \in DOMAIN files : GroupThrows(files[ext], Get(master, ext))
  THEN [threw |-> TRUE]
  ELSE [threw |-> FALSE,
        value |->
          [ext \in (DOMAIN files) \cup (DOMAIN master) |->
             IF ext \in DOMAIN files
             THEN DiffGroup(files[ext], master[ext])
             ELSE [files |-> [fp \in DOMAIN master[ext].files |->
                                [diff |-> 0 - master[ext].files[fp].size]],
                   totalSize |-> 0,
                   diff |-> 0 - master[ext].totalSize]]]

\* lines 160-173: the diff of the head snapshot against the baseline
CollectDiff(files, master) ==
  IF \E ext \in DOMAIN files : GroupThrows(files[ext], Get(master, ext))
  THEN [threw |-> TRUE]
  ELSE [threw |-> FALSE,
        value |-> [ext \in DOMAIN files |-> DiffGroup(files[ext], master[ext])]]

\* mutant of commentText: the filter keeps growth only
commentTextGrowthOnly(files) ==
  [kind |-> "diff",
   blocks |->
     [ext \in DOMAIN files |->
        [diff |-> files[ext].diff,
         arrow |-> files[ext].diff > 0,
         lines |-> {[path |-> fp,
                     diff |-> files[ext].files[fp].diff,
                     arrow |-> files[ext].files[fp].diff > 0] :
                    fp \in {x \in DOMAIN files[ext].files :
                              files[ext].files[x].diff > 0}}]]]

\* lines 175-204: one block per extension, one line per file with a non-zero
\* diff; padding and whitespace are left out
commentText(files) ==
  [kind |-> "diff",
   blocks |->
     [ext \in DOMAIN files |->
        [diff |-> files[ext].diff,
         arrow |-> files[ext].diff > 0,
         lines |-> {[path |-> fp,
                     diff |-> files[ext].files[fp].diff,
                     arrow |-> files[ext].files[fp].diff > 0] :
                    fp \in {x \in DOMAIN files[ext].files :
                              files[ext].files[x].diff # 0}}]]]

\* lines 132 and 138: the body posted before the builds
Placeholder == [kind |-> "[calculating build size...]"]

\* lines 52-63: the request createOrUpdateComment sends
createOrUpdateComment(body, pr, id) ==
  IF Truthy(id)
  THEN [op |-> "PATCH", on |-> id, body |-> body]
  ELSE [op |-> "POST", on |-> pr, body |-> body]

createComment(body, pr) == createOrUpdateComment(body, Val(pr), undefined)

updateComment(body, id) == createOrUpdateComment(body, undefined, id)

(***************************************************************************)
(* The environment: the repository's revisions and what `npm run build`    *)
(* leaves in dist/ for each, and the events the scheduler delivers.        *)
(***************************************************************************)
Procs == {1, 2}
PRs == {1, 2}
Shas == {"r1", "r2"}

\* number of events delivered in one behaviour
MaxEvents == 3

Item(name, size) == [path |-> distPath \o name, size |-> size]

AppJs == <<"a", "p", "p", ".", "j", "s">>
OldJs == <<"o", "l", "d", ".", "j", "s">>
NewJs == <<"n", "e", "w", ".", "j", "s">>
Css(h) == Rep(h, HashMin) \o <<".", "c", "s", "s">>

DistOf(rev) ==
  CASE rev = "r0" -> {Item(AppJs, 2), Item(OldJs, 1), Item(Css("a"), 1)}
    [] rev = "r1" -> {Item(AppJs, 3), Item(Css("b"), 1)}
    [] rev = "r2" -> {Item(AppJs, 2), Item(NewJs, 1)}

\* line 11
actionFilter == {"opened", "closed", "synchronize"}

Events ==
  [action : {"opened", "synchronize"}, number : PRs, sha : Shas,
   merged : {FALSE}, baseRef : {"master"}]
  \cup
  [action : {"closed"}, number : {1}, sha : Shas,
   merged : BOOLEAN, baseRef : {"master", "dev"}]
  \cup
  [action : {"review_requested"}, number : {1}, sha : {"r1"},
   merged : {FALSE}, baseRef : {"master"}]

VARIABLES
  repoDir,       \* data/<owner>/<name> exists
  masterJson,    \* master.json: [exists, content]
  commentsJson,  \* comments.json: [exists, content]
  git,           \* the clone under git/: [exists, origin, head, dist]
  remote,        \* GitHub: [master: revision of the base branch, nextId]
  inv,           \* the invocations of main(), one record per process
  events,        \* events delivered so far
  posts,         \* history: create calls issued so far, per PR number
  createsOk,     \* history: every create call so far returned an id
  mergedSince    \* history: a merge into master arrived since master.json
                 \* was last written

vars == <<repoDir, masterJson, commentsJson, git, remote, inv, events, posts,
          createsOk, mergedSince>>

NoFile == [exists |-> FALSE]
File(c) == [exists |-> TRUE, content |-> c]

Disk == [repoDir |-> repoDir, masterJson |-> masterJson,
         commentsJson |-> commentsJson, git |-> git]

Idle ==
  [pc |-> "idle", event |-> <<>>, pre |-> <<>>, comments |-> EmptyObj,
   commentId |-> undefined, hadId |-> FALSE, req |-> <<>>,
   building |-> "", commit |-> "", baseFiles |-> EmptyObj,
   master |-> EmptyObj, files |-> EmptyObj, log |-> <<>>, error |-> undefined,
   pending |-> undefined, answer |-> ""]

Stopped == {"idle", "done", "failed"}

Init ==
  /\ repoDir = FALSE
  /\ masterJson = NoFile
  /\ commentsJson = NoFile
  /\ git = NoFile
  /\ remote = [master |-> "r0", nextId |-> 1]
  /\ inv = [p \in Procs |-> Idle]
  /\ events = 0
  /\ posts = [n \in PRs |-> 0]
  /\ createsOk = TRUE
  /\ mergedSince = FALSE

\* an unhandled rejection or exception ends main()
Throw(r, what) ==
  [r EXCEPT !.pc = "failed", !.error = Val(what), !.pending = undefined]

Op(name) == [op |-> name]

MergesIntoMaster(e) ==
  e.action = "closed" /\ e.merged /\ e.baseRef = "master"

\* lines 93-94: the scheduler starts main() on one event's payload.json; a
\* closed event of a merged pull request finds the base branch moved
ReadPayload(p, e) ==
  /\ events < MaxEvents
  /\ inv[p].pc \in Stopped
  /\ events' = events + 1
  /\ remote' = IF MergesIntoMaster(e) THEN [remote EXCEPT !.master = e.sha]
               ELSE remote
  /\ mergedSince' = (mergedSince \/ MergesIntoMaster(e))
  /\ inv' = [q \in Procs |->
               IF q = p
               THEN [Idle EXCEPT !.pc = "filter", !.event = e, !.pre = Disk]
               ELSE IF inv[q].pc \in Stopped THEN Idle ELSE inv[q]]
  /\ UNCHANGED <<repoDir, masterJson, commentsJson, git, posts, createsOk>>

\* the scheduler runs one invocation at a time
Schedule(e) ==
  /\ \A q \in Procs : inv[q].pc \in Stopped
  /\ ReadPayload(1, e)

\* mutant of Filter: the action is not checked against actionFilter
FilterPassesAll(p) ==
  /\ inv[p].pc = "filter"
  /\ inv' = [inv EXCEPT ![p].pc = "ensure_dir"]
  /\ UNCHANGED <<repoDir, masterJson, commentsJson, git, remote, events,
                 posts, createsOk, mergedSince>>

\* lines 96-100
Filter(p) ==
  /\ inv[p].pc = "filter"
  /\ inv' = [inv EXCEPT ![p].pc =
               IF inv[p].event.action \in actionFilter THEN "ensure_dir"
               ELSE "done"]
  /\ UNCHANGED <<repoDir, masterJson, commentsJson, git, remote, events,
                 posts, createsOk, mergedSince>>

\* lines 106-113
EnsureDir(p) ==
  /\ inv[p].pc = "ensure_dir"
  /\ repoDir' = TRUE
  /\ inv' = [inv EXCEPT ![p] =
               [@ EXCEPT !.pc = IF inv[p].event.action = "closed" THEN "closed"
                                ELSE "load_comments",
                         !.log = IF repoDir THEN @ ELSE Append(@, Op("mkdir"))]]
  /\ UNCHANGED <<masterJson, commentsJson, git, remote, events, posts,
                 createsOk, mergedSince>>

\* mutant of Closed: the merged branch returns without the unlink
ClosedKeepsBaseline(p) ==
  /\ inv[p].pc = "closed"
  /\ inv' = [inv EXCEPT ![p].pc = "done"]
  /\ UNCHANGED <<repoDir, masterJson, commentsJson, git, remote, events,
                 posts, createsOk, mergedSince>>

\* lines 115-121
Closed(p) ==
  /\ inv[p].pc = "closed"
  /\ LET e == inv[p].event
         clear == e.merged /\ e.baseRef = "master" /\ masterJson.exists
     IN /\ masterJson' = IF clear THEN NoFile ELSE masterJson
        /\ inv' = [inv EXCEPT ![p] =
                     [@ EXCEPT !.pc = "done",
                               !.log = IF clear THEN Append(@, Op("unlink"))
                                       ELSE @]]
  /\ UNCHANGED <<repoDir, commentsJson, git, remote, events, posts,
                 createsOk, mergedSince>>

\* comments[number], the values of the object being possibly undefined
Lookup(o, k) == IF k \in DOMAIN o THEN o[k] ELSE undefined

\* lines 123-128
LoadComments(p) ==
  /\ inv[p].pc = "load_comments"
  /\ LET file == IF commentsJson.exists THEN commentsJson ELSE File(EmptyObj)
         id == Lookup(file.content, inv[p].event.number)
     IN /\ commentsJson' = file
        /\ inv' = [inv EXCEPT ![p] =
                     [@ EXCEPT !.pc = "placeholder",
                               !.comments = file.content,
                               !.commentId = id,
                               !.hadId = Truthy(id),
                               !.log = IF commentsJson.exists THEN @
                                       ELSE Append(@, Op("write_comments"))]]
  /\ UNCHANGED <<repoDir, masterJson, git, remote, events, posts, createsOk,
                 mergedSince>>

IsCreate(req, n) == req.op = "POST" /\ req.on = Val(n)

\* lines 130-132 and 138, up to the await: the placeholder request is sent
PostPlaceholder(p) ==
  /\ inv[p].pc = "placeholder"
  /\ LET r == inv[p]
         req == IF ~Truthy(r.commentId)
                THEN createComment(Placeholder, r.event.number)
                ELSE updateComment(Placeholder, r.commentId)
     IN /\ inv' = [inv EXCEPT ![p] =
                     [@ EXCEPT !.pc = "await_comment", !.req = req,
                               !.pending = Val(req),
                               !.log = Append(@, req)]]
        /\ posts' = [n \in PRs |->
                       IF IsCreate(req, n) THEN posts[n] + 1 ELSE posts[n]]
  /\ UNCHANGED <<repoDir, masterJson, commentsJson, git, remote, events,
                 createsOk, mergedSince>>

\* mutant of CommentResponse: the created id is kept in memory only, line 135
\* is missing
CommentResponseNoPersist(p, answer) ==
  /\ inv[p].pc = "await_comment"
  /\ LET r == inv[p]
         created == r.req.op = "POST"
         createdId == IF answer = "noid" THEN undefined
                      ELSE IF created THEN Val(remote.nextId) ELSE r.req.on
     IN IF answer = "reject"
        THEN /\ inv' = [inv EXCEPT ![p] =
                          Throw([@ EXCEPT !.answer = answer], "fetch")]
             /\ createsOk' = (createsOk /\ ~created)
             /\ UNCHANGED <<remote>>
        ELSE /\ remote' = IF created /\ answer = "id"
                          THEN [remote EXCEPT !.nextId = @ + 1] ELSE remote
             /\ createsOk' = (createsOk /\ (created => answer = "id"))
             /\ inv' = [inv EXCEPT ![p] =
                          [@ EXCEPT !.pc = "clone",
                                    !.pending = undefined,
                                    !.answer = answer,
                                    !.commentId = IF created THEN createdId
                                                  ELSE @]]
  /\ UNCHANGED <<repoDir, masterJson, commentsJson, git, events, posts,
                 mergedSince>>

\* mutant of CommentResponse: line 135 writes the new entry alone
CommentResponseOwnOnly(p, answer) ==
  /\ inv[p].pc = "await_comment"
  /\ LET r == inv[p]
         created == r.req.op = "POST"
         createdId == IF answer = "noid" THEN undefined
                      ELSE IF created THEN Val(remote.nextId) ELSE r.req.on
         comments == Put(EmptyObj, r.event.number, createdId)
     IN IF answer = "reject"
        THEN /\ inv' = [inv EXCEPT ![p] =
                          Throw([@ EXCEPT !.answer = answer], "fetch")]
             /\ createsOk' = (createsOk /\ ~created)
             /\ UNCHANGED <<commentsJson, remote>>
        ELSE /\ remote' = IF created /\ answer = "id"
                          THEN [remote EXCEPT !.nextId = @ + 1] ELSE remote
             /\ createsOk' = (createsOk /\ (created => answer = "id"))
             /\ IF created
                THEN /\ commentsJson' = File(JsonRoundTrip(comments))
                     /\ inv' = [inv EXCEPT ![p] =
                                  [@ EXCEPT !.pc = "clone",
                                            !.pending = undefined,
                                            !.answer = answer,
                                            !.comments = comments,
                                            !.commentId = createdId,
                                            !.log = Append(@, Op("write_comments"))]]
                ELSE /\ commentsJson' = commentsJson
                     /\ inv' = [inv EXCEPT ![p] =
                                  [@ EXCEPT !.pc = "clone",
                                            !.pending = undefined,
                                            !.answer = answer]]
  /\ UNCHANGED <<repoDir, masterJson, git, events, posts, mergedSince>>

\* lines 65-74 and 133-137: the response arrives; answer is "id" (a body with
\* an id), "noid" (a body without one) or "reject" (the request failed)
CommentResponse(p, answer) ==
  /\ inv[p].pc = "await_comment"
  /\ LET r == inv[p]
         created == r.req.op = "POST"
         createdId == IF answer = "noid" THEN undefined
                      ELSE IF created THEN Val(remote.nextId) ELSE r.req.on
         comments == Put(r.comments, r.event.number, createdId)
     IN IF answer = "reject"
        THEN /\ inv' = [inv EXCEPT ![p] =
                          Throw([@ EXCEPT !.answer = answer], "fetch")]
             /\ createsOk' = (createsOk /\ ~created)
             /\ UNCHANGED <<commentsJson, remote>>
        ELSE /\ remote' = IF created /\ answer = "id"
                          THEN [remote EXCEPT !.nextId = @ + 1] ELSE remote
             /\ createsOk' = (createsOk /\ (created => answer = "id"))
             /\ IF created
                THEN /\ commentsJson' = File(JsonRoundTrip(comments))
                     /\ inv' = [inv EXCEPT ![p] =
                                  [@ EXCEPT !.pc = "clone",
                                            !.pending = undefined,
                                            !.answer = answer,
                                            !.comments = comments,
                                            !.commentId = createdId,
                                            !.log = Append(@, Op("write_comments"))]]
                ELSE /\ commentsJson' = commentsJson
                     /\ inv' = [inv EXCEPT ![p] =
                                  [@ EXCEPT !.pc = "clone",
                                            !.pending = undefined,
                                            !.answer = answer]]
  /\ UNCHANGED <<repoDir, masterJson, git, events, posts, mergedSince>>

\* lines 141-147
EnsureClone(p, ok) ==
  /\ inv[p].pc = "clone"
  /\ IF git.exists
     THEN /\ ok
          /\ inv' = [inv EXCEPT ![p].pc = "check_master"]
          /\ git' = git
     ELSE IF ok
     THEN /\ git' = [exists |-> TRUE, origin |-> remote.master,
                     head |-> remote.master, dist |-> {}]
          /\ inv' = [inv EXCEPT ![p] =
                       [@ EXCEPT !.pc = "check_master",
                                 !.log = Append(@, Op("clone"))]]
     ELSE /\ git' = git
          /\ inv' = [inv EXCEPT ![p] =
                       Throw([@ EXCEPT !.log = Append(@, Op("clone"))], "clone")]
  /\ UNCHANGED <<repoDir, masterJson, commentsJson, remote, events, posts,
                 createsOk, mergedSince>>

\* mutant of CheckMaster: the baseline is rebuilt whether or not master.json
\* exists
CheckMasterAlwaysBuilds(p) ==
  /\ inv[p].pc = "check_master"
  /\ inv' = [inv EXCEPT ![p] =
               [@ EXCEPT !.pc = "m_fetch", !.building = "base",
                         !.commit = "origin/master"]]
  /\ UNCHANGED <<repoDir, masterJson, commentsJson, git, remote, events,
                 posts, createsOk, mergedSince>>

\* lines 149-150 and 152-154: the baseline is built only when master.json is
\* missing
CheckMaster(p) ==
  /\ inv[p].pc = "check_master"
  /\ inv' = [inv EXCEPT ![p] =
               IF ~masterJson.exists
               THEN [@ EXCEPT !.pc = "m_fetch", !.building = "base",
                              !.commit = "origin/master"]
               ELSE [@ EXCEPT !.pc = "load_master"]]
  /\ UNCHANGED <<repoDir, masterJson, commentsJson, git, remote, events,
                 posts, createsOk, mergedSince>>

(***************************************************************************)
(* measureBuild (lines 13-50).  Each awaited step either succeeds or       *)
(* rejects; a rejection is not caught, so it ends measureBuild and main(). *)
(***************************************************************************)
Step(name, r, ok) == [op |-> name, commit |-> r.commit, ok |-> ok]

Await(p, at, name, next, ok, gitAfter) ==
  /\ inv[p].pc = at
  /\ IF ok
     THEN /\ git' = gitAfter
          /\ inv' = [inv EXCEPT ![p] =
                       [@ EXCEPT !.pc = next, !.log = Append(@, Step(name, inv[p], TRUE))]]
     ELSE /\ git' = git
          /\ inv' = [inv EXCEPT ![p] =
                       Throw([@ EXCEPT !.log = Append(@, Step(name, inv[p], FALSE))],
                             name)]
  /\ UNCHANGED <<repoDir, masterJson, commentsJson, remote, events, posts,
                 createsOk, mergedSince>>

\* line 16: git fetch brings origin/master up to the remote's
MFetch(p, ok) ==
  Await(p, "m_fetch", "fetch", "m_clean", ok,
        [git EXCEPT !.origin = remote.master])

\* line 19: git clean -f removes untracked files; dist/ is rebuilt at line 27
MClean(p, ok) ==
  Await(p, "m_clean", "clean", "m_checkout", ok, git)

\* mutant of MCheckout: the working copy stays where it was
MCheckoutStale(p, ok) ==
  Await(p, "m_checkout", "checkout", "m_install", ok, git)

\* line 22
MCheckout(p, ok) ==
  Await(p, "m_checkout", "checkout", "m_install", ok,
        [git EXCEPT !.head = IF inv[p].commit = "origin/master" THEN git.origin
                             ELSE inv[p].commit])

\* mutant of MInstall: the outcome of npm ci is not awaited
MInstallUnchecked(p, ok) ==
  /\ inv[p].pc = "m_install"
  /\ git' = git
  /\ inv' = [inv EXCEPT ![p] =
               [@ EXCEPT !.pc = "m_build",
                         !.log = Append(@, Step("npm ci", inv[p], ok))]]
  /\ UNCHANGED <<repoDir, masterJson, commentsJson, remote, events, posts,
                 createsOk, mergedSince>>

\* line 25
MInstall(p, ok) ==
  Await(p, "m_install", "npm ci", "m_build", ok, git)

\* mutant of MBuild: the outcome of npm run build is not awaited
MBuildUnchecked(p, ok) ==
  /\ inv[p].pc = "m_build"
  /\ git' = IF ok THEN [git EXCEPT !.dist = DistOf(git.head)] ELSE git
  /\ inv' = [inv EXCEPT ![p] =
               [@ EXCEPT !.pc = "m_collect",
                         !.log = Append(@, Step("npm run build", inv[p], ok))]]
  /\ UNCHANGED <<repoDir, masterJson, commentsJson, remote, events, posts,
                 createsOk, mergedSince>>

\* line 27: the build writes dist/ from the working copy as checked out
MBuild(p, ok) ==
  Await(p, "m_build", "npm run build", "m_collect", ok,
        [git EXCEPT !.dist = DistOf(git.head)])

\* lines 29-49: the walk over dist/, resolved to the caller (line 150 or 157)
MCollect(p) ==
  /\ inv[p].pc = "m_collect"
  /\ \E o \in Orders(git.dist) :
       inv' = [inv EXCEPT ![p] =
                 IF @.building = "base"
                 THEN [@ EXCEPT !.pc = "write_master", !.baseFiles = Walk(o),
                                !.log = Append(@, Step("walk", inv[p], TRUE))]
                 ELSE [@ EXCEPT !.pc = "diff", !.files = Walk(o),
                                !.log = Append(@, Step("walk", inv[p], TRUE))]]
  /\ UNCHANGED <<repoDir, masterJson, commentsJson, git, remote, events,
                 posts, createsOk, mergedSince>>

\* line 151
WriteMaster(p) ==
  /\ inv[p].pc = "write_master"
  /\ masterJson' = File(inv[p].baseFiles)
  /\ mergedSince' = FALSE
  /\ inv' = [inv EXCEPT ![p] =
               [@ EXCEPT !.pc = "load_master",
                         !.log = Append(@, Op("write_master"))]]
  /\ UNCHANGED <<repoDir, commentsJson, git, remote, events, posts, createsOk>>

\* mutant of LoadMaster: line 157 passes the base branch again
LoadMasterBuildsBase(p) ==
  /\ inv[p].pc = "load_master"
  /\ inv' = [inv EXCEPT ![p] =
               IF masterJson.exists
               THEN [@ EXCEPT !.pc = "m_fetch", !.master = masterJson.content,
                              !.building = "head", !.commit = "origin/master"]
               ELSE Throw(@, "ENOENT")]
  /\ UNCHANGED <<repoDir, masterJson, commentsJson, git, remote, events,
                 posts, createsOk, mergedSince>>

\* line 155, and line 157 up to the call of measureBuild
LoadMaster(p) ==
  /\ inv[p].pc = "load_master"
  /\ inv' = [inv EXCEPT ![p] =
               IF masterJson.exists
               THEN [@ EXCEPT !.pc = "m_fetch", !.master = masterJson.content,
                              !.building = "head", !.commit = inv[p].event.sha]
               ELSE Throw(@, "ENOENT")]
  /\ UNCHANGED <<repoDir, masterJson, commentsJson, git, remote, events,
                 posts, createsOk, mergedSince>>

\* lines 159-173
Diff(p) ==
  /\ inv[p].pc = "diff"
  /\ LET d == CollectDiff(inv[p].files, inv[p].master)
     IN inv' = [inv EXCEPT ![p] =
                  IF d.threw THEN Throw(@, "TypeError")
                  ELSE [@ EXCEPT !.pc = "final_update", !.files = d.value]]
  /\ UNCHANGED <<repoDir, masterJson, commentsJson, git, remote, events,
                 posts, createsOk, mergedSince>>

\* lines 175-210: the final request is sent and not awaited; main() returns
\* with the request in flight
FinalUpdate(p) ==
  /\ inv[p].pc = "final_update"
  /\ LET req == updateComment(commentText(inv[p].files), inv[p].commentId)
     IN inv' = [inv EXCEPT ![p] =
                  [@ EXCEPT !.pc = "returned", !.req = req,
                            !.pending = Val(req), !.log = Append(@, req)]]
  /\ UNCHANGED <<repoDir, masterJson, commentsJson, git, remote, events,
                 posts, createsOk, mergedSince>>

\* lines 65-74 for the request of line 206: its response arrives after main()
\* has returned and the process ends; a rejection is unhandled
FinalResponse(p, answer) ==
  /\ inv[p].pc = "returned"
  /\ answer = "id" => inv[p].req.op = "PATCH"
  /\ inv' = [inv EXCEPT ![p] =
               IF answer = "reject"
               THEN Throw([@ EXCEPT !.answer = answer], "fetch")
               ELSE [@ EXCEPT !.pc = "done", !.pending = undefined,
                              !.answer = answer]]
  /\ UNCHANGED <<repoDir, masterJson, commentsJson, git, remote, events,
                 posts, createsOk, mergedSince>>

Next ==
  \/ \E e \in Events : Schedule(e)
  \/ \E p \in Procs : Filter(p)
  \/ \E p \in Procs : EnsureDir(p)
  \/ \E p \in Procs : Closed(p)
  \/ \E p \in Procs : LoadComments(p)
  \/ \E p \in Procs : PostPlaceholder(p)
  \/ \E p \in Procs, answer \in {"id", "noid", "reject"} : CommentResponse(p, answer)
  \/ \E p \in Procs, ok \in BOOLEAN : EnsureClone(p, ok)
  \/ \E p \in Procs : CheckMaster(p)
  \/ \E p \in Procs, ok \in BOOLEAN : MFetch(p, ok)
  \/ \E p \in Procs, ok \in BOOLEAN : MClean(p, ok)
  \/ \E p \in Procs, ok \in BOOLEAN : MCheckout(p, ok)
  \/ \E p \in Procs, ok \in BOOLEAN : MInstall(p, ok)
  \/ \E p \in Procs, ok \in BOOLEAN : MBuild(p, ok)
  \/ \E p \in Procs : MCollect(p)
  \/ \E p \in Procs : WriteMaster(p)
  \/ \E p \in Procs : LoadMaster(p)
  \/ \E p \in Procs : Diff(p)
  \/ \E p \in Procs : FinalUpdate(p)
  \/ \E p \in Procs, answer \in {"id", "noid", "reject"} : FinalResponse(p, answer)

Spec == Init /\ [][Next]_vars

(***************************************************************************)
(* Properties of the event flow, checked under Spec.                       *)
(***************************************************************************)
Range(q) == {q[i] : i \in DOMAIN q}

IsRest(x) == x.op \in {"POST", "PATCH"}

RestCalls(log) == SelectSeq(log, IsRest)

MeasureOf(dist) == {Walk(o) : o \in Orders(dist)}

Monitored(r) == r.pc # "idle" /\ r.event.action \in {"opened", "synchronize"}

\* the invocation started a build of origin/master
BuiltBase(r) ==
  \E i \in DOMAIN r.log : r.log[i].op = "fetch" /\ r.log[i].commit = "origin/master"

\* C1: an opened event for a PR without an entry in comments.json, whose
\* builds and REST calls all succeed, issues a POST with the placeholder body,
\* later a PATCH with the rendered diff to the id the POST returned, and
\* leaves comments.json mapping the PR number to that id.
C1_OpenedCreatesThenUpdates ==
  \A p \in Procs :
    LET r == inv[p]
    IN (/\ r.pc \in {"done", "failed"}
        /\ r.event.action = "opened"
        /\ ~r.hadId
        /\ Truthy(r.commentId)
        /\ r.error \in {undefined, Val("TypeError")})
       => /\ r.pc = "done"
          /\ \E i, j \in DOMAIN r.log :
               /\ i < j
               /\ r.log[i] = createComment(Placeholder, r.event.number)
               /\ r.log[j] = updateComment(commentText(r.files), r.commentId)
               /\ r.log[j].op = "PATCH"
          /\ commentsJson.exists
          /\ Lookup(commentsJson.content, r.event.number) = r.commentId

\* C2: a closed event of a PR merged into master that finds master.json
\* deletes it and issues no comment call.
C2_MergedCloseClearsBaseline ==
  \A p \in Procs :
    LET r == inv[p]
    IN (r.pc = "done" /\ MergesIntoMaster(r.event) /\ r.pre.masterJson.exists)
       => /\ ~masterJson.exists
          /\ Op("unlink") \in Range(r.log)
          /\ RestCalls(r.log) = <<>>

C2_Witness ==
  \E p \in Procs :
    /\ inv[p].pc = "done"
    /\ MergesIntoMaster(inv[p].event)
    /\ inv[p].pre.masterJson.exists
    /\ inv[p].pre.commentsJson.exists

\* C3: an event whose action is not opened, closed or synchronize changes
\* nothing under data/ and makes no clone, fetch or comment call.
C3_IgnoredActionNoEffect ==
  \A p \in Procs :
    LET r == inv[p]
    IN (r.pc # "idle" /\ r.event.action \notin actionFilter)
       => Disk = r.pre /\ r.log = <<>>

C3_Witness ==
  \E p \in Procs :
    /\ inv[p].pc = "done"
    /\ inv[p].event.action = "review_requested"
    /\ ~repoDir

\* C4: the base branch is built only by an opened/synchronize invocation that
\* found master.json absent; an invocation that found it loads it without
\* rebuilding; and an invocation that gets past the baseline step after a merge
\* into master has rebuilt the base branch and persisted its snapshot.
C4_BaselineBuiltOnlyWhenAbsent ==
  \A p \in Procs :
    LET r == inv[p]
    IN /\ (r.pc # "idle" /\ BuiltBase(r))
            => Monitored(r) /\ ~r.pre.masterJson.exists
       /\ (r.building = "head" /\ r.pre.masterJson.exists)
            => /\ ~BuiltBase(r)
               /\ r.master = r.pre.masterJson.content
               /\ masterJson = r.pre.masterJson
       /\ r.building = "head"
            => /\ ~mergedSince
               /\ masterJson.exists
               /\ r.master = masterJson.content
       /\ (r.building = "head" /\ r.pc = "m_fetch")
            => r.master \in MeasureOf(DistOf(remote.master))

\* a merge into master was processed, and a later invocation rebuilt the base
C4_Witness ==
  \E p \in Procs :
    /\ inv[p].pc = "done"
    /\ Monitored(inv[p])
    /\ remote.master # "r0"
    /\ BuiltBase(inv[p])
    /\ Op("write_master") \in Range(inv[p].log)
    /\ inv[p].pre.git.exists

\* C5: as long as every create call returned an id, at most one POST has been
\* issued per PR number, and an invocation that found the PR in comments.json
\* issues only PATCH calls, addressed to the id stored there.
C5_OneCreatePerPR ==
  createsOk =>
    /\ \A n \in PRs : posts[n] <= 1
    /\ \A p \in Procs :
         LET r == inv[p]
         IN (r.pc # "idle" /\ r.hadId)
            => \A c \in Range(RestCalls(r.log)) :
                 /\ c.op = "PATCH"
                 /\ c.on = Lookup(commentsJson.content, r.event.number)

C5_Witness ==
  \E p \in Procs :
    /\ createsOk
    /\ inv[p].pc = "done"
    /\ Monitored(inv[p])
    /\ inv[p].hadId
    /\ posts[inv[p].event.number] = 1
    /\ Len(RestCalls(inv[p].log)) = 2

MeasureSteps == {"fetch", "clean", "checkout", "npm ci", "npm run build"}

\* C10: when fetch, clean, checkout, install or build fails inside
\* measureBuild, nothing of the invocation runs after it, no snapshot is
\* returned, main() ends with that error, and a failing base-branch build
\* leaves master.json unwritten.
C10_BuildFailureAborts ==
  \A p \in Procs :
    LET r == inv[p]
    IN \A i \in DOMAIN r.log :
         (r.log[i].op \in MeasureSteps /\ ~r.log[i].ok)
         => /\ i = Len(r.log)
            /\ r.pc = "failed"
            /\ r.error = Val(r.log[i].op)
            /\ \A j \in DOMAIN r.log :
                 r.log[j].op = "walk" => r.log[j].commit # r.log[i].commit
            /\ r.log[i].commit = "origin/master"
                 => /\ ~masterJson.exists
                    /\ Op("write_master") \notin Range(r.log)
                    /\ r.baseFiles = EmptyObj
            /\ r.log[i].commit # "origin/master" => r.files = EmptyObj

\* the build step of the base-branch build failed
C10_Witness ==
  \E p \in Procs :
    /\ inv[p].pc = "failed"
    /\ inv[p].error = Val("npm run build")
    /\ inv[p].building = "base"
    /\ ~masterJson.exists

(***************************************************************************)
(* The walker and the diff on their own: an invocation stands right before *)
(* the walk (SpecWalk) or right before the diff (SpecDiff), with the       *)
(* contents of dist/ and the two snapshots drawn from bounded sets.        *)
(***************************************************************************)
\* files in one dist/
MaxFiles == 3
\* runs of equal characters in one generated path
MaxRuns == 3

Sizes == {1, 2}

HashJs(h) == Rep(h, HashMin) \o <<".", "j", "s">>
Readme == <<"R", "E", "A", "D", "M", "E">>

WalkNames == {AppJs, HashJs("a"), HashJs("b"), Css("a"), Readme}
DiffNames == {AppJs, OldJs, NewJs, Css("a")}

\* every dist/ of at most n files with names from a pool
Dists(names, n) ==
  UNION {{{Item(nm, sz[nm]) : nm \in S} : sz \in [S -> Sizes]} :
         S \in {T \in SUBSET names : Cardinality(T) <= n}}

\* paths made of runs of one character each: hexadecimal runs around the
\* limits of the pattern, and separators
RunChars == {"a", "F", "g", "/"}
RunLens == {1, HashMin - 1, HashMin, HashMax, HashMax + 1}

RECURSIVE Flatten(_)
Flatten(runs) ==
  IF runs = <<>> THEN <<>>
  ELSE Rep(Head(runs)[1], Head(runs)[2]) \o Flatten(Tail(runs))

RunPaths ==
  {Flatten(runs) : runs \in UNION {[1..n -> RunChars \X RunLens] : n \in 1..MaxRuns}}

FreshDisk == [repoDir |-> FALSE, masterJson |-> NoFile,
              commentsJson |-> NoFile, git |-> NoFile]

\* the first opened event of PR 1, as far as the walk of its base build
AtWalk ==
  [Idle EXCEPT
     !.pc = "m_collect",
     !.event = [action |-> "opened", number |-> 1, sha |-> "r1",
                merged |-> FALSE, baseRef |-> "master"],
     !.pre = FreshDisk,
     !.comments = Put(EmptyObj, 1, Val(1)),
     !.commentId = Val(1),
     !.req = createComment(Placeholder, 1),
     !.building = "base",
     !.commit = "origin/master",
     !.log = <<Op("mkdir"), Op("write_comments"),
               createComment(Placeholder, 1), Op("write_comments"),
               Op("clone"),
               [op |-> "fetch", commit |-> "origin/master", ok |-> TRUE],
               [op |-> "clean", commit |-> "origin/master", ok |-> TRUE],
               [op |-> "checkout", commit |-> "origin/master", ok |-> TRUE],
               [op |-> "npm ci", commit |-> "origin/master", ok |-> TRUE],
               [op |-> "npm run build", commit |-> "origin/master", ok |-> TRUE]>>]

InitWalk ==
  /\ repoDir = TRUE
  /\ masterJson = NoFile
  /\ commentsJson = File(Put(EmptyObj, 1, Val(1)))
  /\ \E d \in Dists(WalkNames, MaxFiles) \cup {{Item(s, 1)} : s \in RunPaths} :
       git = [exists |-> TRUE, origin |-> "r0", head |-> "r0", dist |-> d]
  /\ remote = [master |-> "r0", nextId |-> 2]
  /\ inv = [p \in Procs |-> IF p = 1 THEN AtWalk ELSE Idle]
  /\ events = 1
  /\ posts = [n \in PRs |-> IF n = 1 THEN 1 ELSE 0]
  /\ createsOk = TRUE
  /\ mergedSince = FALSE

NextWalk ==
  \/ \E p \in Procs : MCollect(p)
  \/ \E p \in Procs : WriteMaster(p)

SpecWalk == InitWalk /\ [][NextWalk]_vars

RECURSIVE SumSizes(_)
SumSizes(f) ==
  IF DOMAIN f = {} THEN 0
  ELSE LET k == CHOOSE x \in DOMAIN f : TRUE
       IN f[k].size + SumSizes([x \in (DOMAIN f) \ {k} |-> f[x]])

\* C8: in every snapshot measureBuild returns, each extension group's
\* totalSize is the sum of the sizes of the entries of its file map.
C8_TotalSizeIsSum ==
  \A p \in Procs :
    inv[p].pc = "write_master"
    => \A ext \in DOMAIN inv[p].baseFiles :
         inv[p].baseFiles[ext].totalSize = SumSizes(inv[p].baseFiles[ext].files)

\* the normalization C9 describes: every maximal run of HashMin to HashMax
\* hexadecimal characters becomes [hash], everything else stays
RECURSIVE HashAllFrom(_, _)
HashAllFrom(s, i) ==
  IF i > Len(s) THEN <<>>
  ELSE IF IsHex(s[i])
  THEN LET run == HexRunLen(s, i)
       IN (IF run >= HashMin /\ run <= HashMax THEN HashToken
           ELSE SubSeq(s, i, i + run - 1)) \o HashAllFrom(s, i + run)
  ELSE <<s[i]>> \o HashAllFrom(s, i + 1)

HashAll(s) == HashAllFrom(s, 1)

\* C9: the key a file gets in its group is its path under dist/ with every
\* run of 20 to 64 hexadecimal characters replaced by [hash] and every other
\* run, shorter, longer or not hexadecimal, left as it is.
C9_EveryHashRunReplaced ==
  \A p \in Procs :
    inv[p].pc = "write_master"
    => \A it \in git.dist :
         HashAll(StripDist(it.path))
           \in DOMAIN inv[p].baseFiles[extname(it.path)].files

\* the snapshot of a dist/ whose files have different normalized paths
Snapshot(d) == Walk(CHOOSE o \in Orders(d) : TRUE)

\* a synchronize event of PR 1, already commented, as far as the diff
AtDiff(files, master, before) ==
  [Idle EXCEPT
     !.pc = "diff",
     !.event = [action |-> "synchronize", number |-> 1, sha |-> "r1",
                merged |-> FALSE, baseRef |-> "master"],
     !.pre = before,
     !.comments = Put(EmptyObj, 1, Val(1)),
     !.commentId = Val(1),
     !.hadId = TRUE,
     !.req = updateComment(Placeholder, Val(1)),
     !.building = "head",
     !.commit = "r1",
     !.master = master,
     !.files = files,
     !.log = <<updateComment(Placeholder, Val(1)),
               [op |-> "fetch", commit |-> "r1", ok |-> TRUE],
               [op |-> "clean", commit |-> "r1", ok |-> TRUE],
               [op |-> "checkout", commit |-> "r1", ok |-> TRUE],
               [op |-> "npm ci", commit |-> "r1", ok |-> TRUE],
               [op |-> "npm run build", commit |-> "r1", ok |-> TRUE],
               [op |-> "walk", commit |-> "r1", ok |-> TRUE]>>]

InitDiff ==
  /\ repoDir = TRUE
  /\ commentsJson = File(Put(EmptyObj, 1, Val(1)))
  /\ remote = [master |-> "r0", nextId |-> 2]
  /\ events = 2
  /\ posts = [n \in PRs |-> IF n = 1 THEN 1 ELSE 0]
  /\ createsOk = TRUE
  /\ mergedSince = FALSE
  /\ \E head \in Dists(DiffNames, MaxFiles), base \in Dists(DiffNames, MaxFiles) :
       /\ masterJson = File(Snapshot(base))
       /\ git = [exists |-> TRUE, origin |-> "r0", head |-> "r1", dist |-> head]
       /\ inv = [p \in Procs |->
                   IF p = 1
                   THEN AtDiff(Snapshot(head), Snapshot(base),
                               [repoDir |-> TRUE,
                                masterJson |-> File(Snapshot(base)),
                                commentsJson |-> File(Put(EmptyObj, 1, Val(1))),
                                git |-> [exists |-> TRUE, origin |-> "r0",
                                         head |-> "r0", dist |-> base]])
                   ELSE Idle]

NextDiff ==
  \/ \E p \in Procs : Diff(p)
  \/ \E p \in Procs : FinalUpdate(p)

SpecDiff == InitDiff /\ [][NextDiff]_vars

\* the baseline size of a path, 0 when the baseline lacks the file or the group
BaseSize(master, ext, fp) ==
  IF ext \in DOMAIN master /\ fp \in DOMAIN master[ext].files
  THEN master[ext].files[fp].size ELSE 0

\* C6: the diff step does not fail, and gives every file of every group of
\* the new snapshot diff = its size minus the baseline size of its path, 0
\* standing for a file or a group the baseline lacks.
C6_DiffOfEveryNewFile ==
  [][\A p \in Procs :
       (inv[p].pc = "diff" /\ inv'[p].pc # "diff")
       => /\ inv'[p].pc = "final_update"
          /\ \A ext \in DOMAIN inv[p].files :
               \A fp \in DOMAIN inv[p].files[ext].files :
                 inv'[p].files[ext].files[fp].diff =
                   inv[p].files[ext].files[fp].size
                     - BaseSize(inv[p].master, ext, fp)]_vars

\* C7: the diff step gives every file that the baseline holds in a group of
\* the new snapshot, and the new snapshot lacks, an entry with
\* diff = -(baseline size) and no size, and leaves the group's totalSize alone.
C7_RemovedFilesInserted ==
  [][\A p \in Procs :
       (inv[p].pc = "diff" /\ inv'[p].pc # "diff")
       => \A ext \in (DOMAIN inv[p].files) \cap (DOMAIN inv[p].master) :
            /\ inv'[p].files[ext].totalSize = inv[p].files[ext].totalSize
            /\ \A fp \in (DOMAIN inv[p].master[ext].files)
                           \ (DOMAIN inv[p].files[ext].files) :
                 /\ fp \in DOMAIN inv'[p].files[ext].files
                 /\ inv'[p].files[ext].files[fp] =
                      [diff |-> 0 - inv[p].master[ext].files[fp].size]]_vars

\* the invocation has sent the report: its diff and the body it posted
Reported(r) == r.pc = "returned" /\ r.req.body.kind = "diff"

\* C11: in the report every block's header shows the diff of its group, and
\* its lines are, once each and with their diff, the files of the group whose
\* diff is not 0, removed files included.
C11_ReportListsNonzeroDiffs ==
  \A p \in Procs :
    Reported(inv[p])
    => LET files == inv[p].files
           blocks == inv[p].req.body.blocks
       IN /\ DOMAIN blocks = DOMAIN files
          /\ \A ext \in DOMAIN files :
               LET nonzero == {fp \in DOMAIN files[ext].files :
                                 files[ext].files[fp].diff # 0}
               IN /\ blocks[ext].diff = files[ext].diff
                  /\ {l.path : l \in blocks[ext].lines} = nonzero
                  /\ Cardinality(blocks[ext].lines) = Cardinality(nonzero)
                  /\ \A l \in blocks[ext].lines :
                       l.diff = files[ext].files[l.path].diff

\* a group with an unchanged file, a grown file and a removed file
C11_Witness ==
  \E p \in Procs :
    /\ Reported(inv[p])
    /\ \E ext \in DOMAIN inv[p].files :
         LET fs == inv[p].files[ext].files
         IN /\ \E fp \in DOMAIN fs : fs[fp].diff = 0
            /\ \E fp \in DOMAIN fs : fs[fp].diff > 0
            /\ \E fp \in DOMAIN fs : "size" \notin DOMAIN fs[fp]

\* the extensions of the files of a dist/
ExtsOf(d) == {extname(it.path) : it \in d}

\* C20: the diff and the report hold the extensions of the head snapshot and
\* no other: a group that only the baseline has gets no entry, no block and
\* no line.
C20_OnlyHeadExtensions ==
  \A p \in Procs :
    LET r == inv[p]
    IN /\ r.pc \in {"final_update", "returned"}
            => DOMAIN r.files = ExtsOf(git.dist)
       /\ Reported(r)
            => /\ DOMAIN r.req.body.blocks = ExtsOf(git.dist)
               /\ \A ext \in (DOMAIN r.master) \ ExtsOf(git.dist) :
                    \A fp \in DOMAIN r.master[ext].files :
                      \A b \in DOMAIN r.req.body.blocks :
                        \A l \in r.req.body.blocks[b].lines : l.path # fp

\* the baseline had a group that the head snapshot lacks
C20_Witness ==
  \E p \in Procs :
    /\ Reported(inv[p])
    /\ (DOMAIN inv[p].master) \ (DOMAIN inv[p].files) # {}
    /\ DOMAIN inv[p].files # {}

(***************************************************************************)
(* Order of the steps inside one invocation, checked under Spec.           *)
(***************************************************************************)
\* C12: a request that has been sent and not yet answered is one main() is
\* suspended on: no step is outstanding while main() runs on or after it has
\* returned.
C12_EveryStepAwaited ==
  \A p \in Procs :
    inv[p].pending # undefined => inv[p].pc = "await_comment"

\* the steps of the build of one commit, as logged
BuildOps == MeasureSteps \cup {"walk"}

HeadSteps(r) ==
  {i \in DOMAIN r.log : r.log[i].op \in BuildOps /\ r.log[i].commit = r.event.sha}

BaseSteps(r) ==
  {i \in DOMAIN r.log :
     r.log[i].op \in BuildOps /\ r.log[i].commit = "origin/master"}

\* C13: in an opened/synchronize invocation every step of the base build, and
\* the write of master.json, precede every step of the head build; and an
\* invocation that is past the head build has run all of its steps, whether it
\* found master.json or built it.
C13_BuildsDoNotOverlap ==
  \A p \in Procs :
    LET r == inv[p]
    IN Monitored(r) =>
         /\ \A j \in HeadSteps(r) :
              /\ \A i \in BaseSteps(r) : i < j
              /\ BaseSteps(r) # {} =>
                   /\ \E i \in BaseSteps(r) : r.log[i].op = "walk"
                   /\ \E k \in DOMAIN r.log :
                        k < j /\ r.log[k] = Op("write_master")
                        /\ \A i \in BaseSteps(r) : i < k
         /\ r.pc \in {"diff", "final_update", "returned", "done"} =>
              \A o \in BuildOps :
                \E j \in HeadSteps(r) : r.log[j].op = o /\ r.log[j].ok

\* one invocation built both revisions
C13_Witness ==
  \E p \in Procs :
    /\ inv[p].pc = "done"
    /\ Monitored(inv[p])
    /\ BaseSteps(inv[p]) # {}
    /\ HeadSteps(inv[p]) # {}
    /\ inv[p].pre.git.exists

(***************************************************************************)
(* The registry and the closed event, checked under Spec.                  *)
(***************************************************************************)
\* the invocation created a comment, got no id back and wrote comments.json
CreatedNoId(r) ==
  /\ Monitored(r)
  /\ ~r.hadId
  /\ r.commentId = undefined
  /\ \E i \in DOMAIN r.log :
       /\ r.log[i] = createComment(Placeholder, r.event.number)
       /\ i < Len(r.log)
       /\ r.log[i + 1] = Op("write_comments")

\* C16, as claimed: after a create response without id, the registry written
\* to comments.json holds an entry for that PR number.
C16_MissingIdStored ==
  \A p \in Procs :
    CreatedNoId(inv[p])
    => inv[p].event.number \in DOMAIN commentsJson.content

\* C16, amended: after a create response without id, comments.json is written
\* unvalidated but holds no entry for that PR number, the entries of the other
\* PRs are as before, and the invocation goes on with an undefined id.
C16_MissingIdDropped ==
  \A p \in Procs :
    LET r == inv[p]
    IN CreatedNoId(r)
       => /\ commentsJson.exists
          /\ r.event.number \notin DOMAIN commentsJson.content
          /\ r.event.number \in DOMAIN r.comments
          /\ r.comments[r.event.number] = undefined
          /\ \A n \in PRs \ {r.event.number} :
               Lookup(commentsJson.content, n) =
                 IF r.pre.commentsJson.exists
                 THEN Lookup(r.pre.commentsJson.content, n) ELSE undefined

C16_Witness ==
  \E p \in Procs :
    /\ CreatedNoId(inv[p])
    /\ inv[p].pc = "clone"
    /\ inv[p].pre.commentsJson.exists
    /\ inv[p].pre.commentsJson.content # EmptyObj

\* C17: a step never removes or changes an entry of comments.json.
C17_MappingNeverRemoved ==
  [][\A n \in PRs :
       (commentsJson.exists /\ Lookup(commentsJson.content, n) # undefined)
       => /\ commentsJson'.exists
          /\ Lookup(commentsJson'.content, n) = Lookup(commentsJson.content, n)]_vars

\* a merged close of a PR whose entry was in comments.json has been handled
C17_Witness ==
  \E p \in Procs :
    /\ inv[p].pc = "done"
    /\ inv[p].event.action = "closed"
    /\ MergesIntoMaster(inv[p].event)
    /\ inv[p].pre.commentsJson.exists
    /\ Lookup(inv[p].pre.commentsJson.content, inv[p].event.number) # undefined
    /\ Lookup(commentsJson.content, inv[p].event.number) # undefined

\* a closed event that does not clear the baseline
ClosedNoClear(r) ==
  /\ r.pc = "done"
  /\ r.event.action = "closed"
  /\ ~(MergesIntoMaster(r.event) /\ r.pre.masterJson.exists)

\* C18, as claimed: such a closed event leaves the data directory,
\* master.json, comments.json and the clone as they were and calls nothing.
C18_ClosedIsNoOp ==
  \A p \in Procs :
    ClosedNoClear(inv[p]) => Disk = inv[p].pre /\ inv[p].log = <<>>

\* the clone or a step of a build failed
BuildOrCloneFailed(r) ==
  \/ r.pc = "failed" /\ r.error = Val("clone")
  \/ \E i \in DOMAIN r.log : r.log[i].op \in MeasureSteps /\ ~r.log[i].ok

\* C19: when the clone or a build fails after the placeholder call, that call
\* stays the invocation's only comment call, so the comment keeps the
\* placeholder body, and the entry of the PR stays in comments.json.
C19_FailureLeavesPlaceholder ==
  \A p \in Procs :
    LET r == inv[p]
    IN BuildOrCloneFailed(r)
       => /\ RestCalls(r.log) = <<r.req>>
          /\ r.req.body = Placeholder
          /\ r.pending = undefined
          /\ Truthy(r.commentId)
               => Lookup(commentsJson.content, r.event.number) = r.commentId

\* the head build failed in the invocation that created the comment
C19_Witness ==
  \E p \in Procs :
    /\ inv[p].pc = "failed"
    /\ inv[p].error = Val("npm run build")
    /\ inv[p].building = "head"
    /\ ~inv[p].hadId
    /\ Truthy(inv[p].commentId)

(***************************************************************************)
(* Two invocations of main() running at once on the same data directory    *)
(* and the same clone: the scheduler has started one process per event.    *)
(* The processes interleave at their awaits.                               *)
(***************************************************************************)
\* process 1 handles the opening of PR 1 at r1, process 2 a push to either PR
ConcEvents(p) ==
  IF p = 1
  THEN [action : {"opened"}, number : {1}, sha : {"r1"},
        merged : {FALSE}, baseRef : {"master"}]
  ELSE [action : {"synchronize"}, number : PRs, sha : Shas,
        merged : {FALSE}, baseRef : {"master"}]

FreshPre ==
  [repoDir |-> FALSE, masterJson |-> NoFile, commentsJson |-> NoFile,
   git |-> NoFile]

InitConc ==
  /\ repoDir = FALSE
  /\ masterJson = NoFile
  /\ commentsJson = NoFile
  /\ git = NoFile
  /\ remote = [master |-> "r0", nextId |-> 1]
  /\ events = Cardinality(Procs)
  /\ posts = [n \in PRs |-> 0]
  /\ createsOk = TRUE
  /\ mergedSince = FALSE
  /\ \E e1 \in ConcEvents(1), e2 \in ConcEvents(2) :
       inv = [p \in Procs |->
                [Idle EXCEPT !.pc = "filter",
                             !.event = IF p = 1 THEN e1 ELSE e2,
                             !.pre = FreshPre]]

\* every request and every command succeeds
NextConc ==
  \/ \E p \in Procs : Filter(p)
  \/ \E p \in Procs : EnsureDir(p)
  \/ \E p \in Procs : LoadComments(p)
  \/ \E p \in Procs : PostPlaceholder(p)
  \/ \E p \in Procs : CommentResponse(p, "id")
  \/ \E p \in Procs : EnsureClone(p, TRUE)
  \/ \E p \in Procs : CheckMaster(p)
  \/ \E p \in Procs : MFetch(p, TRUE)
  \/ \E p \in Procs : MClean(p, TRUE)
  \/ \E p \in Procs : MCheckout(p, TRUE)
  \/ \E p \in Procs : MInstall(p, TRUE)
  \/ \E p \in Procs : MBuild(p, TRUE)
  \/ \E p \in Procs : MCollect(p)
  \/ \E p \in Procs : WriteMaster(p)
  \/ \E p \in Procs : LoadMaster(p)
  \/ \E p \in Procs : Diff(p)
  \/ \E p \in Procs : FinalUpdate(p)
  \/ \E p \in Procs : FinalResponse(p, "id")

SpecConc == InitConc /\ [][NextConc]_vars

\* C14: an entry of comments.json is removed or changed only by the write at
\* line 135 of an invocation whose copy of the registry, read at line 127, is
\* stale for that entry; and a second comment is created for a PR only by an
\* invocation whose copy has no entry for it.
C14_RegistryLostOnlyByStaleWrite ==
  [][\A n \in PRs :
       /\ (/\ commentsJson.exists
           /\ Lookup(commentsJson.content, n) # undefined
           /\ Lookup(commentsJson'.content, n) # Lookup(commentsJson.content, n))
          => \E p \in Procs :
               /\ inv[p].pc = "await_comment"
               /\ inv'[p].pc = "clone"
               /\ inv[p].req.op = "POST"
               /\ Lookup(inv[p].comments, n) # Lookup(commentsJson.content, n)
       /\ (posts[n] = 1 /\ posts'[n] = 2)
          => \E p \in Procs :
               /\ inv[p].pc = "placeholder"
               /\ inv[p].event.number = n
               /\ Lookup(inv[p].comments, n) = undefined]_vars

\* the entry one invocation wrote for its PR is gone from comments.json,
\* overwritten by the other's copy
LostMapping(p) ==
  /\ inv[p].pc \notin {"filter", "ensure_dir", "load_comments", "placeholder",
                       "await_comment"}
  /\ ~inv[p].hadId
  /\ Truthy(inv[p].commentId)
  /\ Lookup(commentsJson.content, inv[p].event.number) = undefined

C14_Witness ==
  \E p \in Procs : LostMapping(p)

\* two comments were created for one PR number
C14_TwoComments ==
  \E n \in PRs : posts[n] = 2 /\ createsOk /\ remote.nextId = 3

\* the snapshot an invocation took is not a snapshot of the revision it built
WrongSnapshot(p) ==
  \/ /\ inv[p].pc = "diff"
     /\ inv[p].files \notin MeasureOf(DistOf(inv[p].event.sha))
  \/ /\ inv[p].pc = "write_master"
     /\ inv[p].baseFiles \notin MeasureOf(DistOf(remote.master))

\* C15: an invocation measures a revision other than the one it checked out
\* only when the other invocation checked out a different commit in the
\* shared working copy.
C15_WrongSnapshotOnlyByInterference ==
  \A p \in Procs :
    WrongSnapshot(p)
    => \E q \in Procs \ {p} :
         \E i \in DOMAIN inv[q].log :
           /\ inv[q].log[i].op = "checkout"
           /\ inv[q].log[i].ok
           /\ inv[q].log[i].commit # inv[p].commit

\* the head snapshot of an invocation is of another revision
C15_Witness ==
  \E p \in Procs :
    /\ WrongSnapshot(p)
    /\ inv[p].pc = "diff"
    /\ \E i \in DOMAIN inv[p].log :
         inv[p].log[i] = [op |-> "checkout", commit |-> inv[p].event.sha,
                          ok |-> TRUE]

====
